---- MODULE Spec2Model ----
(***************************************************************************)
(* Spreadsheet-style database editor: the App component's table state      *)
(* (tables, activeTable), its asynchronous mutation handlers against the   *)
(* remote store (blink.db.tables / blink.db.tableRows), loadTables, and    *)
(* the DataGrid's row selection.                                           *)
(*                                                                         *)
(* Every handler is split where the code awaits: the part before the first *)
(* await is the "issue" step (it captures the render's activeTable in its  *)
(* closure), the continuation after the await is the "resolve" step.  The  *)
(* remote store applies a write at the moment its call resolves            *)
(* successfully; a rejected call writes nothing.                           *)
(*                                                                         *)
(* Values: the empty string is "", the boolean false is "false", the       *)
(* boolean true is "true" and "a" is a non-empty string.  Timestamps       *)
(* (createdAt, updatedAt) and userId are carried by no decision of the     *)
(* handlers and are left out of the table records.                         *)
(***************************************************************************)
EXTENDS Integers, Sequences, FiniteSets, TLC

\* ---------------------------------------------------------------- bounds
\* the clock readings Date.now() takes
MaxClock == 2
\* the number of gestures the user makes in a session
MaxGestures == 2
\* the same, in a session where the user waits for each call to resolve
MaxSeqGestures == 3
\* the number of loadTables invocations in flight at a time
MaxLoads == 2

\* ------------------------------------------------------------- constants
\* width of a column made by handleColumnAdd
DefaultWidth == 200

NoUser == "null"
TheUser == "u1"

\* Date.now() is a clock reading 1..MaxClock; the generated identifiers are
\* `table_${Date.now()}`, `col_${Date.now()}`, `row_${Date.now()}`.
TableIdAt(t) == <<"table_t1", "table_t2", "table_t3", "table_t4">>[t]
ColIdAt(t) == <<"col_t1", "col_t2", "col_t3", "col_t4">>[t]
RowIdAt(t) == <<"row_t1", "row_t2", "row_t3", "row_t4">>[t]

\* `Column ${columns.length + 1}`
ColumnNameAt(n) ==
  <<"Column 1", "Column 2", "Column 3", "Column 4", "Column 5", "Column 6", "Column 7",
    "Column 8", "Column 9">>[n]

\* Every key a row object can carry, in one fixed order (used to write a
\* row object out as text).
AllKeys == <<"id", "col_1", "col_2", "col_t1", "col_t2", "col_t3", "col_t4">>

\* ------------------------------------------------------------ data model
Column(id, name, type) == [id |-> id, name |-> name, type |-> type, width |-> DefaultWidth]

\* activeTable === null
NoTable == [id |-> "null", name |-> "", columns |-> <<>>, rows |-> <<>>]

Table(id, name, columns, rows) == [id |-> id, name |-> name, columns |-> columns, rows |-> rows]

ColumnIds(columns) == {columns[i].id : i \in DOMAIN columns}

RowIds(rows) == {rows[i]["id"] : i \in DOMAIN rows}

\* the keys of a row other than its own id
ValueKeys(row) == DOMAIN row \ {"id"}

\* ------------------------------------------------------ sequence helpers
Range(s) == {s[i] : i \in DOMAIN s}

Reverse(s) == [i \in 1..Len(s) |-> s[Len(s) + 1 - i]]

\* array.find(x => x.id === id): the first element of that id, as a
\* 0/1-element sequence
FindById(s, id) ==
  LET hit == SelectSeq(s, LAMBDA x : x["id"] = id)
  IN IF hit = <<>> THEN <<>> ELSE <<hit[1]>>

RemoveAt(s, i) == [j \in 1..(Len(s) - 1) |-> IF j < i THEN s[j] ELSE s[j + 1]]

\* ------------------------------------------------------------------ JSON
\* JSON.stringify of a row object: its key/value pairs as text, in key order.
StringifyRow(row) ==
  LET keys == SelectSeq(AllKeys, LAMBDA k : k \in DOMAIN row)
  IN [i \in 1..Len(keys) |-> <<keys[i], row[keys[i]]>>]

\* JSON.parse of that text: the object with those keys.
ParseRow(text) ==
  [k \in {text[i][1] : i \in DOMAIN text} |->
      (CHOOSE p \in Range(text) : p[1] = k)[2]]

\* JSON.stringify / JSON.parse of a column list.
StringifyColumns(columns) ==
  [i \in 1..Len(columns) |->
      <<columns[i].id, columns[i].name, columns[i].type, columns[i].width>>]

ParseColumns(text) ==
  [i \in 1..Len(text) |->
      [id |-> text[i][1], name |-> text[i][2], type |-> text[i][3], width |-> text[i][4]]]

\* ------------------------------------------------- handlers: pure parts
\* An invocation of a handler that is suspended at an await.  snap is the
\* activeTable its closure captured; id is the identifier it generated from
\* Date.now(); todo and failed belong to handleColumnDelete's Promise.all;
\* batch is the selection whose bulk delete made the call (else empty).
Op(kind, snap, id, name, columns, rowId, colId, value) ==
  [kind |-> kind, snap |-> snap, id |-> id, name |-> name, columns |-> columns,
   rowId |-> rowId, colId |-> colId, value |-> value,
   phase |-> "call", todo |-> {}, failed |-> FALSE, batch |-> {}]

NoOp == Op("none", NoTable, "", "", <<>>, "", "", "")

\* handleCreateTable: newTable
NewTable(op) == Table(op.id, op.name, op.columns, <<>>)

\* (the new table put behind the others)
PrependTable_Appends(newTable, prev) == Append(prev, newTable)

\* handleCreateTable: setTables(prev => [newTable, ...prev])
PrependTable(newTable, prev) == <<newTable>> \o prev

\* handleColumnAdd: newColumn and updatedColumns
NewColumn(op) == Column(op.id, ColumnNameAt(Len(op.snap.columns) + 1), "text")

\* (the new column put first)
ColumnAddColumns_Prepends(op) == <<NewColumn(op)>> \o op.snap.columns

\* handleColumnAdd: updatedColumns
ColumnAddColumns(op) == Append(op.snap.columns, NewColumn(op))

\* handleColumnUpdate: updatedColumns ({...col, ...updates}, updates = {name})
ColumnUpdateColumns(op) ==
  [i \in DOMAIN op.snap.columns |->
      IF op.snap.columns[i].id = op.colId
      THEN [op.snap.columns[i] EXCEPT !.name = op.name]
      ELSE op.snap.columns[i]]

\* handleColumnDelete: updatedColumns
ColumnDeleteColumns(op) == SelectSeq(op.snap.columns, LAMBDA col : col.id # op.colId)

\* (a destructuring that drops nothing)
StripKey_Keeps(row, columnId) == row

\* const { [columnId]: removed, ...rest } = row
StripKey(row, columnId) == [k \in DOMAIN row \ {columnId} |-> row[k]]

\* handleColumnDelete: updatedRows
ColumnDeleteRows(op) == [i \in DOMAIN op.snap.rows |-> StripKey(op.snap.rows[i], op.colId)]

\* (every column defaulting to the empty string)
DefaultValue_Empty(col) == ""

\* handleRowAdd: col.type === 'boolean' ? false : ''
DefaultValue(col) == IF col.type = "boolean" THEN "false" ELSE ""

\* handleRowAdd: newRowData
NewRowData(op) ==
  [k \in {"id"} \cup ColumnIds(op.snap.columns) |->
      IF k = "id" THEN op.id
      ELSE LET cols == op.snap.columns
               last == CHOOSE i \in DOMAIN cols :
                         cols[i].id = k /\ \A j \in DOMAIN cols : cols[j].id = k => j <= i
           IN DefaultValue(cols[last])]

RowAddRows(op) == Append(op.snap.rows, NewRowData(op))

\* { ...row, [columnId]: value }
SetKey(row, columnId, value) ==
  [k \in DOMAIN row \cup {columnId} |-> IF k = columnId THEN value ELSE row[k]]

\* handleRowUpdate: updatedRows
RowUpdateRows(op) ==
  [i \in DOMAIN op.snap.rows |->
      IF op.snap.rows[i]["id"] = op.rowId
      THEN SetKey(op.snap.rows[i], op.colId, op.value)
      ELSE op.snap.rows[i]]

\* (only the changed key sent to the store)
UpdatedRow_Patch(op) ==
  LET hit == FindById(RowUpdateRows(op), op.rowId)
  IN IF hit = <<>> THEN <<>>
     ELSE <<[k \in {"id", op.colId} |-> hit[1][k]]>>

\* handleRowUpdate: updatedRows.find(r => r.id === rowId)
UpdatedRow(op) == FindById(RowUpdateRows(op), op.rowId)

\* handleRowDelete: updatedRows
RowDeleteRows(op) == SelectSeq(op.snap.rows, LAMBDA row : row["id"] # op.rowId)

\* updatedTable of each handler: { ...activeTable, columns / rows }
UpdatedTable(op) ==
  CASE op.kind = "addColumn" -> [op.snap EXCEPT !.columns = ColumnAddColumns(op)]
    [] op.kind = "updateColumn" -> [op.snap EXCEPT !.columns = ColumnUpdateColumns(op)]
    [] op.kind = "deleteColumn" ->
         [op.snap EXCEPT !.columns = ColumnDeleteColumns(op), !.rows = ColumnDeleteRows(op)]
    [] op.kind = "addRow" -> [op.snap EXCEPT !.rows = RowAddRows(op)]
    [] op.kind = "updateRow" -> [op.snap EXCEPT !.rows = RowUpdateRows(op)]
    [] op.kind = "deleteRow" -> [op.snap EXCEPT !.rows = RowDeleteRows(op)]

\* (the result dropped when another table has become active meanwhile)
SetUpdated_IfStillActive(op, prev, prevActive) ==
  [active |-> IF prevActive.id = op.snap.id THEN UpdatedTable(op) ELSE prevActive,
   tables |-> [i \in DOMAIN prev |-> IF prev[i].id = op.snap.id THEN UpdatedTable(op) ELSE prev[i]]]

\* setActiveTable(updatedTable);
\* setTables(prev => prev.map(t => t.id === activeTable.id ? updatedTable : t))
SetUpdated(op, prev, prevActive) ==
  [active |-> UpdatedTable(op),
   tables |-> [i \in DOMAIN prev |-> IF prev[i].id = op.snap.id THEN UpdatedTable(op) ELSE prev[i]]]

\* The local state after the continuation of a successful await.
OnSuccess(op, prev, prevActive) ==
  IF op.kind = "createTable"
  THEN [active |-> NewTable(op), tables |-> PrependTable(NewTable(op), prev)]
  ELSE SetUpdated(op, prev, prevActive)

\* (a catch block that keeps the update of the try block)
OnFailure_Applied(op, prev, prevActive) == OnSuccess(op, prev, prevActive)

\* (handleColumnDelete's catch block going on with the local update)
OnFailure_ColumnDeleted(op, prev, prevActive) ==
  IF op.kind = "deleteColumn"
  THEN OnSuccess(op, prev, prevActive)
  ELSE [active |-> prevActive, tables |-> prev]

\* The local state after a catch block: only console.error and toast run.
OnFailure(op, prev, prevActive) == [active |-> prevActive, tables |-> prev]

\* (the setters run before the await)
OnIssue_Optimistic(op, prev, prevActive) == OnSuccess(op, prev, prevActive)

\* The local state while the handler is suspended at its await: no setter
\* has run yet.
OnIssue(op, prev, prevActive) == [active |-> prevActive, tables |-> prev]

\* The toast of a handler's success path (handleColumnUpdate and
\* handleRowUpdate show none).
SuccessToast(op) == IF op.kind \in {"updateColumn", "updateRow"} THEN "none" ELSE "success"

\* ---------------------------------------------------------- remote store
\* The store keeps table records and row records in creation order; a record
\* holds its identifier and the serialized blob.  create writes the record
\* under its id (replacing a record of that id), update changes the record
\* of that id if there is one, delete removes it.
TableRecord(id, name, columns) == [id |-> id, name |-> name, columns |-> StringifyColumns(columns)]

RowRecord(id, tableId, row) == [id |-> id, tableId |-> tableId, data |-> StringifyRow(row)]

HasId(records, id) == \E i \in DOMAIN records : records[i].id = id

StoreCreate(records, rec) ==
  IF HasId(records, rec.id)
  THEN [i \in DOMAIN records |-> IF records[i].id = rec.id THEN rec ELSE records[i]]
  ELSE Append(records, rec)

StoreDelete(records, id) == SelectSeq(records, LAMBDA r : r.id # id)

TablesUpdate(records, id, columns) ==
  [i \in DOMAIN records |->
      IF records[i].id = id
      THEN [records[i] EXCEPT !.columns = StringifyColumns(columns)]
      ELSE records[i]]

RowsUpdate(records, id, row) ==
  [i \in DOMAIN records |->
      IF records[i].id = id THEN [records[i] EXCEPT !.data = StringifyRow(row)] ELSE records[i]]

\* The table records after the remote call of op has succeeded.
RemoteTablesAfter(op, records) ==
  CASE op.kind = "createTable" -> StoreCreate(records, TableRecord(op.id, op.name, op.columns))
    [] op.kind = "addColumn" -> TablesUpdate(records, op.snap.id, ColumnAddColumns(op))
    [] op.kind = "updateColumn" -> TablesUpdate(records, op.snap.id, ColumnUpdateColumns(op))
    [] op.kind = "deleteColumn" -> TablesUpdate(records, op.snap.id, ColumnDeleteColumns(op))
    [] OTHER -> records

\* The row records after the remote call of op has succeeded.
RemoteRowsAfter(op, records) ==
  CASE op.kind = "addRow" -> StoreCreate(records, RowRecord(op.id, op.snap.id, NewRowData(op)))
    [] op.kind = "updateRow" -> RowsUpdate(records, op.rowId, UpdatedRow(op)[1])
    [] op.kind = "deleteRow" -> StoreDelete(records, op.rowId)
    [] OTHER -> records

\* loadTables: one table of tablesWithRows, decoded from its record and from
\* the row records of that table (orderBy createdAt asc).
DecodeTable(rec, rowRecords) ==
  LET mine == SelectSeq(rowRecords, LAMBDA r : r.tableId = rec.id)
  IN Table(rec.id, rec.name, ParseColumns(rec.columns),
           [i \in DOMAIN mine |-> SetKey(ParseRow(mine[i].data), "id",
                                         IF "id" \in {mine[i].data[j][1] : j \in DOMAIN mine[i].data}
                                         THEN ParseRow(mine[i].data)["id"]
                                         ELSE mine[i].id)])

\* loadTables: tablesWithRows for the table records tablesData
TablesWithRows(tablesData, rowRecords) ==
  [i \in DOMAIN tablesData |-> DecodeTable(tablesData[i], rowRecords)]

\* tables.list(orderBy createdAt desc)
TablesList(records) == Reverse(records)

\* ------------------------------------------------------------------ state
VARIABLES
  now,          \* the latest reading of Date.now()
  user,         \* App: user
  tables,       \* App: tables
  activeTable,  \* App: activeTable (NoTable is null)
  rTables,      \* remote store: table records, in creation order
  rRows,        \* remote store: row records, in creation order
  pending,      \* handler invocations suspended at an await
  loads,        \* loadTables invocations suspended at an await
  selectedRows, \* DataGrid: selectedRows
  budget,       \* the number of gestures the user has left
  last,         \* the step just taken: its event, its handler invocation, the
                \* toast it showed and the id of the table active before it
  editingCell,  \* DataGrid: editingCell (NoCell is null)
  sortColumn,   \* DataGrid: sortColumn (NoColumn is null)
  sortDirection,\* DataGrid: sortDirection
  editValue,    \* CellEditor: editValue ("" while no editor is mounted)
  tableName,    \* CreateTableDialog: tableName, the characters typed
  dlgColumns,   \* CreateTableDialog: columns
  createTableOpen \* App: createTableOpen

\* the DataGrid's edit and sort state
gridVars == <<editingCell, sortColumn, sortDirection, editValue>>

\* the creation form's state
dialogVars == <<tableName, dlgColumns, createTableOpen>>

vars ==
  <<now, user, tables, activeTable, rTables, rRows, pending, loads, selectedRows, budget, last,
    editingCell, sortColumn, sortDirection, editValue, tableName, dlgColumns, createTableOpen>>

\* one more gesture of the user
Gesture == budget > 0 /\ budget' = budget - 1

\* ----------------------------------------------------------------- inputs
TableNames == {"Contacts"}

\* column lists the creation form hands to handleCreateTable
ColumnInputs ==
  { <<Column("col_1", "Name", "text"), Column("col_2", "Email", "boolean")>>,
    <<Column("col_1", "Name", "text")>> }

\* new names typed into a column header
ColumnNames == {"Renamed"}

\* values committed by a cell editor
CellValues == {"b", "true"}

\* what the store holds when the application starts: nothing, or one table
\* with one row left by an earlier session
SeedColumns == <<Column("col_1", "Name", "text"), Column("col_2", "Email", "boolean")>>

SeedRow(id, name) ==
  [k \in {"id", "col_1", "col_2"} |->
      CASE k = "id" -> id [] k = "col_1" -> name [] k = "col_2" -> "false"]

InitStores ==
  { [tables |-> <<>>, rows |-> <<>>],
    [tables |-> <<TableRecord("table_0", "Other", <<Column("col_1", "Name", "text")>>),
                  TableRecord("table_1", "Seed", SeedColumns)>>,
     rows |-> <<RowRecord("row_0", "table_1", SeedRow("row_0", "a")),
                RowRecord("row_1", "table_1", SeedRow("row_1", ""))>>] }

\* editingCell === null, sortColumn === null
NoCell == [rowId |-> "null", columnId |-> "null"]

NoColumn == "null"

\* useState initial values of DataGrid: editingCell, sortColumn, sortDirection
GridInit ==
  /\ editingCell = NoCell
  /\ editValue = ""
  /\ sortColumn = NoColumn
  /\ sortDirection = "asc"

\* CreateTableDialog: the columns the form starts with and is reset to
DefaultColumns == <<Column("col_1", "Name", "text"), Column("col_2", "Email", "text")>>

\* useState initial values of CreateTableDialog and of App's createTableOpen
DialogInit ==
  /\ tableName = <<>>
  /\ dlgColumns = DefaultColumns
  /\ createTableOpen = FALSE

Event(ev, op, toast) == [ev |-> ev, op |-> op, toast |-> toast, was |-> activeTable.id]

Init ==
  /\ now = 1
  /\ user = NoUser
  /\ tables = <<>>
  /\ activeTable = NoTable
  /\ \E store \in InitStores : rTables = store.tables /\ rRows = store.rows
  /\ pending = <<>>
  /\ loads = <<>>
  /\ selectedRows = {}
  /\ budget = MaxGestures
  /\ last = [ev |-> "init", op |-> NoOp, toast |-> "none", was |-> NoTable.id]
  /\ GridInit
  /\ DialogInit

\* ------------------------------------------------------------ loadTables
\* A loadTables invocation: hadActive is the activeTable test of its closure
\* (line 61), tablesData the result of tables.list once it has resolved.
Load(hadActive) == [phase |-> "tables", hadActive |-> hadActive, tablesData |-> <<>>]

\* useEffect [user, loadTables]: loadTables is re-created, and so called
\* again, whenever activeTable changes.
EffectLoads(queue, rerender, newActive) ==
  IF rerender THEN Append(queue, Load(newActive # NoTable)) ELSE queue

\* there is room for the loadTables invocation a step starts
LoadRoom(rerender) == rerender => Len(loads) < MaxLoads

\* blink.auth.onAuthStateChanged: the user signs in; the effect calls loadTables
AuthStateChanged ==
  /\ user = NoUser
  /\ user' = TheUser
  /\ loads' = Append(loads, Load(activeTable # NoTable))
  /\ last' = Event("auth", NoOp, "none")
  /\ UNCHANGED <<now, tables, activeTable, rTables, rRows, pending, selectedRows, budget>>

\* the continuation after `await Promise.all(...)`: setTables, and
\* setActiveTable of the first table if the closure saw none active
LoadApply(k, tablesWithRows) ==
  LET setsActive == ~loads[k].hadActive /\ Len(tablesWithRows) > 0
      newActive == IF setsActive THEN tablesWithRows[1] ELSE activeTable
  IN /\ tables' = tablesWithRows
     /\ activeTable' = newActive
     /\ loads' = EffectLoads(RemoveAt(loads, k), setsActive, newActive)
     /\ last' = Event("loadOk", NoOp, "none")

\* tables.list resolves; with no table Promise.all([]) resolves at once
LoadTablesListed(k) ==
  /\ k \in DOMAIN loads
  /\ loads[k].phase = "tables"
  /\ IF rTables = <<>>
     THEN LoadApply(k, <<>>)
     ELSE /\ loads' = [loads EXCEPT ![k].phase = "rows", ![k].tablesData = TablesList(rTables)]
          /\ last' = Event("loadListed", NoOp, "none")
          /\ UNCHANGED <<tables, activeTable>>
  /\ UNCHANGED <<now, user, rTables, rRows, pending, selectedRows, budget>>

\* every tableRows.list resolves
LoadRowsListed(k) ==
  /\ k \in DOMAIN loads
  /\ loads[k].phase = "rows"
  /\ LoadApply(k, TablesWithRows(loads[k].tablesData, rRows))
  /\ UNCHANGED <<now, user, rTables, rRows, pending, selectedRows, budget>>

\* a list call rejects: the catch block
LoadFail(k) ==
  /\ k \in DOMAIN loads
  /\ loads' = RemoveAt(loads, k)
  /\ last' = Event("loadFail", NoOp, "error")
  /\ UNCHANGED <<now, user, tables, activeTable, rTables, rRows, pending, selectedRows, budget>>

\* ------------------------------------------------------ handlers: issue
AllRowIds == {"row_0", "row_1"} \cup {RowIdAt(t) : t \in 1..MaxClock}

\* Date.now() read by a handler: the clock has not gone back since the
\* latest reading.
Clock == now..MaxClock

\* The handler runs up to its await: the remote call is in flight.  t is
\* its reading of Date.now(), if it takes one.
Issue(op, t) ==
  LET res == OnIssue(op, tables, activeTable)
  IN /\ Gesture
     /\ now' = t
     /\ pending' = Append(pending, op)
     /\ tables' = res.tables
     /\ activeTable' = res.active
     /\ loads' = EffectLoads(loads, res.active # activeTable, res.active)
     /\ last' = Event("issue", op, "none")
     /\ UNCHANGED <<user, rTables, rRows, selectedRows>>

\* The handler returns before any call (`if (!activeTable) return`, or no
\* row of that id in handleRowUpdate).
Return(kind) ==
  /\ Gesture
  /\ last' = Event("return", [NoOp EXCEPT !.kind = kind], "none")
  /\ UNCHANGED <<now, user, tables, activeTable, rTables, rRows, pending, loads, selectedRows>>

handleCreateTable(name, columns, t) ==
  /\ user # NoUser
  /\ Issue(Op("createTable", NoTable, TableIdAt(t), name, columns, "", "", ""), t)

\* tables.find(t => t.id === tableId); the sidebar lists the ids of tables
handleTableSelect(tableId) ==
  LET found == FindById(tables, tableId)
      newActive == IF found # <<>> THEN found[1] ELSE activeTable
  IN /\ user # NoUser
     /\ tableId \in {tables[i].id : i \in DOMAIN tables}
     /\ Gesture
     /\ LoadRoom(newActive # activeTable)
     /\ activeTable' = newActive
     /\ loads' = EffectLoads(loads, newActive # activeTable, newActive)
     /\ last' = Event("select", NoOp, "none")
     /\ UNCHANGED <<now, user, tables, rTables, rRows, pending, selectedRows>>

handleColumnAdd(t) ==
  /\ user # NoUser
  /\ IF activeTable = NoTable
     THEN t = now /\ Return("addColumn")
     ELSE Issue(Op("addColumn", activeTable, ColIdAt(t), "", <<>>, "", "", ""), t)

handleColumnUpdate(columnId, name) ==
  /\ user # NoUser
  /\ IF activeTable = NoTable
     THEN Return("updateColumn")
     ELSE /\ columnId \in ColumnIds(activeTable.columns)
          /\ Issue(Op("updateColumn", activeTable, "", name, <<>>, "", columnId, ""), now)

handleColumnDelete(columnId) ==
  /\ user # NoUser
  /\ IF activeTable = NoTable
     THEN Return("deleteColumn")
     ELSE /\ columnId \in ColumnIds(activeTable.columns)
          /\ Issue(Op("deleteColumn", activeTable, "", "", <<>>, "", columnId, ""), now)

handleRowAdd(t) ==
  /\ user # NoUser
  /\ IF activeTable = NoTable
     THEN t = now /\ Return("addRow")
     ELSE Issue(Op("addRow", activeTable, RowIdAt(t), "", <<>>, "", "", ""), t)

\* (a handleRowUpdate that does not look the row up before the call)
handleRowUpdate_NoLookup(rowId, columnId, value) ==
  LET op == Op("updateRow", activeTable, "", "", <<>>, rowId, columnId, value)
  IN /\ user # NoUser
     /\ IF activeTable = NoTable
        THEN Return("updateRow")
        ELSE /\ columnId \in ColumnIds(activeTable.columns)
             /\ Issue(op, now)

handleRowUpdate(rowId, columnId, value) ==
  LET op == Op("updateRow", activeTable, "", "", <<>>, rowId, columnId, value)
  IN /\ user # NoUser
     /\ IF activeTable = NoTable \/ UpdatedRow(op) = <<>>
        THEN Return("updateRow")
        ELSE /\ columnId \in ColumnIds(activeTable.columns)
             /\ Issue(op, now)

handleRowDelete(rowId) ==
  /\ user # NoUser
  /\ IF activeTable = NoTable
     THEN Return("deleteRow")
     ELSE /\ rowId \in RowIds(activeTable.rows)
          /\ Issue(Op("deleteRow", activeTable, "", "", <<>>, rowId, "", ""), now)

\* ---------------------------------------------------- handlers: resolve
\* The continuation of the try block: the setters, then the toast.
Succeed(op, rest) ==
  LET res == OnSuccess(op, tables, activeTable)
  IN /\ LoadRoom(TRUE)
     /\ tables' = res.tables
     /\ activeTable' = res.active
     /\ loads' = EffectLoads(loads, TRUE, res.active)
     /\ pending' = rest
     /\ last' = Event("ok", op, SuccessToast(op))

\* The catch block: console.error and one destructive toast.
Catch(op, rest) ==
  LET res == OnFailure(op, tables, activeTable)
  IN /\ tables' = res.tables
     /\ activeTable' = res.active
     /\ loads' = EffectLoads(loads, res.active # activeTable, res.active)
     /\ pending' = rest
     /\ last' = Event("fail", op, "error")

\* The remote call of a single-call handler resolves.
ResolveOk(i) ==
  /\ i \in DOMAIN pending
  /\ pending[i].phase = "call"
  /\ pending[i].kind # "deleteColumn"
  /\ rTables' = RemoteTablesAfter(pending[i], rTables)
  /\ rRows' = RemoteRowsAfter(pending[i], rRows)
  /\ Succeed(pending[i], RemoveAt(pending, i))
  /\ UNCHANGED <<now, user, selectedRows, budget>>

\* The remote call of a handler (for handleColumnDelete, its tables.update)
\* rejects.
ResolveFail(i) ==
  /\ i \in DOMAIN pending
  /\ pending[i].phase = "call"
  /\ Catch(pending[i], RemoveAt(pending, i))
  /\ UNCHANGED <<now, user, rTables, rRows, selectedRows, budget>>

\* handleColumnDelete: tables.update resolves; one tableRows.update per row
\* is issued and Promise.all awaited (with no row it resolves at once).
ColumnsWritten(i) ==
  /\ i \in DOMAIN pending
  /\ pending[i].phase = "call"
  /\ pending[i].kind = "deleteColumn"
  /\ rTables' = RemoteTablesAfter(pending[i], rTables)
  /\ IF pending[i].snap.rows = <<>>
     THEN Succeed(pending[i], RemoveAt(pending, i))
     ELSE /\ pending' = [pending EXCEPT ![i].phase = "rows",
                                        ![i].todo = DOMAIN pending[i].snap.rows]
          /\ last' = Event("columnsWritten", pending[i], "none")
          /\ UNCHANGED <<tables, activeTable, loads>>
  /\ UNCHANGED <<now, user, rRows, selectedRows, budget>>

\* handleColumnDelete: the tableRows.update of row j resolves; when it is the
\* last one and none was rejected, Promise.all resolves.
RowWritten(i, j) ==
  /\ i \in DOMAIN pending
  /\ pending[i].phase = "rows"
  /\ j \in pending[i].todo
  /\ LET op == pending[i]
         row == ColumnDeleteRows(op)[j]
         todo == op.todo \ {j}
     IN /\ rRows' = RowsUpdate(rRows, row["id"], row)
        /\ IF todo # {}
           THEN /\ pending' = [pending EXCEPT ![i].todo = todo]
                /\ last' = Event("rowWritten", op, "none")
                /\ UNCHANGED <<tables, activeTable, loads>>
           ELSE IF op.failed
           THEN /\ pending' = RemoveAt(pending, i)
                /\ last' = Event("rowWritten", op, "none")
                /\ UNCHANGED <<tables, activeTable, loads>>
           ELSE Succeed(op, RemoveAt(pending, i))
  /\ UNCHANGED <<now, user, rTables, selectedRows, budget>>

\* handleColumnDelete: the tableRows.update of row j rejects; the first
\* rejection rejects Promise.all, the other calls stay in flight.
RowRejected(i, j) ==
  /\ i \in DOMAIN pending
  /\ pending[i].phase = "rows"
  /\ j \in pending[i].todo
  /\ LET op == pending[i]
         todo == op.todo \ {j}
         rest == IF todo = {} THEN RemoveAt(pending, i)
                 ELSE [pending EXCEPT ![i].todo = todo, ![i].failed = TRUE]
     IN IF op.failed
        THEN /\ pending' = rest
             /\ last' = Event("rowRejected", op, "none")
             /\ UNCHANGED <<tables, activeTable, loads>>
        ELSE Catch(op, rest)
  /\ UNCHANGED <<now, user, rTables, rRows, selectedRows, budget>>

\* ---------------------------------------------------------------- DataGrid
\* the checkbox of a row
ToggleRow(rowId, checked) ==
  /\ user # NoUser
  /\ activeTable # NoTable
  /\ rowId \in RowIds(activeTable.rows)
  /\ checked = (rowId \notin selectedRows)
  /\ Gesture
  /\ selectedRows' = IF checked THEN selectedRows \cup {rowId} ELSE selectedRows \ {rowId}
  /\ last' = Event("toggleRow", NoOp, "none")
  /\ UNCHANGED <<now, user, tables, activeTable, rTables, rRows, pending, loads>>

\* the header checkbox
SelectAll(checked) ==
  /\ user # NoUser
  /\ activeTable # NoTable
  /\ checked = ~(Cardinality(selectedRows) = Len(activeTable.rows) /\ Len(activeTable.rows) > 0)
  /\ Gesture
  /\ selectedRows' = IF checked THEN RowIds(activeTable.rows) ELSE {}
  /\ last' = Event("selectAll", NoOp, "none")
  /\ UNCHANGED <<now, user, tables, activeTable, rTables, rRows, pending, loads>>

\* a set's members in one order (forEach visits them in insertion order)
RECURSIVE SetToSeq(_)
SetToSeq(set) ==
  IF set = {} THEN <<>>
  ELSE LET x == CHOOSE y \in set : TRUE IN <<x>> \o SetToSeq(set \ {x})

\* the bulk delete button: selectedRows.forEach(rowId => onRowDelete(rowId)),
\* every call from the same render, then setSelectedRows(new Set())
BulkDelete ==
  LET ids == SetToSeq(selectedRows)
      ops == [n \in DOMAIN ids |->
                [Op("deleteRow", activeTable, "", "", <<>>, ids[n], "", "")
                   EXCEPT !.batch = selectedRows]]
  IN /\ user # NoUser
     /\ activeTable # NoTable
     /\ selectedRows # {}
     /\ Gesture
     /\ pending' = pending \o ops
     /\ selectedRows' = {}
     /\ last' = Event("bulkDelete", NoOp, "none")
     /\ UNCHANGED <<now, user, tables, activeTable, rTables, rRows, loads>>

\* ------------------------------------------------------------------- Next
AllColIds == {"col_1", "col_2"} \cup {ColIdAt(t) : t \in 1..MaxClock}

\* a step of App or of the selection leaves the grid's edit and sort state
\* and the creation form alone
Others == UNCHANGED <<gridVars, dialogVars>>

\* the user acts only when no call of a mutation is pending
Idle == pending = <<>>

Next ==
  \/ Others /\ AuthStateChanged
  \/ Others /\ \E k \in DOMAIN loads : LoadTablesListed(k)
  \/ Others /\ \E k \in DOMAIN loads : LoadRowsListed(k)
  \/ Others /\ \E k \in DOMAIN loads : LoadFail(k)
  \/ Others /\ \E name \in TableNames, columns \in ColumnInputs, t \in Clock :
                  handleCreateTable(name, columns, t)
  \/ Others /\ \E tableId \in {tables[i].id : i \in DOMAIN tables} : handleTableSelect(tableId)
  \/ Others /\ \E t \in Clock : handleColumnAdd(t)
  \/ Others /\ \E columnId \in AllColIds, name \in ColumnNames :
                  handleColumnUpdate(columnId, name)
  \/ Others /\ \E columnId \in AllColIds : handleColumnDelete(columnId)
  \/ Others /\ \E t \in Clock : handleRowAdd(t)
  \/ Others /\ \E rowId \in AllRowIds, columnId \in AllColIds, value \in CellValues :
                  handleRowUpdate(rowId, columnId, value)
  \/ Others /\ \E rowId \in AllRowIds : handleRowDelete(rowId)
  \/ Others /\ \E i \in DOMAIN pending : ResolveOk(i)
  \/ Others /\ \E i \in DOMAIN pending : ResolveFail(i)
  \/ Others /\ \E i \in DOMAIN pending : ColumnsWritten(i)
  \/ Others /\ \E i \in DOMAIN pending : \E j \in pending[i].todo : RowWritten(i, j)
  \/ Others /\ \E i \in DOMAIN pending : \E j \in pending[i].todo : RowRejected(i, j)
  \/ Others /\ \E rowId \in AllRowIds, checked \in BOOLEAN : ToggleRow(rowId, checked)
  \/ Others /\ \E checked \in BOOLEAN : SelectAll(checked)
  \/ Others /\ BulkDelete

Spec == Init /\ [][Next]_vars

\* A session in which the user makes a gesture only when no call of a
\* mutation is pending, and in which no remote call is rejected.
InitSeq ==
  /\ now = 1
  /\ user = NoUser
  /\ tables = <<>>
  /\ activeTable = NoTable
  /\ \E store \in InitStores : rTables = store.tables /\ rRows = store.rows
  /\ pending = <<>>
  /\ loads = <<>>
  /\ selectedRows = {}
  /\ budget = MaxSeqGestures
  /\ last = [ev |-> "init", op |-> NoOp, toast |-> "none", was |-> NoTable.id]
  /\ GridInit
  /\ DialogInit

NextSeq ==
  \/ Others /\ AuthStateChanged
  \/ Others /\ \E k \in DOMAIN loads : LoadTablesListed(k)
  \/ Others /\ \E k \in DOMAIN loads : LoadRowsListed(k)
  \/ Idle /\ Others /\ \E name \in TableNames, columns \in ColumnInputs, t \in Clock :
                          handleCreateTable(name, columns, t)
  \/ Idle /\ Others /\ \E tableId \in {tables[i].id : i \in DOMAIN tables} :
                          handleTableSelect(tableId)
  \/ Idle /\ Others /\ \E t \in Clock : handleColumnAdd(t)
  \/ Idle /\ Others /\ \E columnId \in AllColIds, name \in ColumnNames :
                          handleColumnUpdate(columnId, name)
  \/ Idle /\ Others /\ \E columnId \in AllColIds : handleColumnDelete(columnId)
  \/ Idle /\ Others /\ \E t \in Clock : handleRowAdd(t)
  \/ Idle /\ Others /\ \E rowId \in AllRowIds, columnId \in AllColIds, value \in CellValues :
                          handleRowUpdate(rowId, columnId, value)
  \/ Idle /\ Others /\ \E rowId \in AllRowIds : handleRowDelete(rowId)
  \/ Others /\ \E i \in DOMAIN pending : ResolveOk(i)
  \/ Others /\ \E i \in DOMAIN pending : ColumnsWritten(i)
  \/ Others /\ \E i \in DOMAIN pending : \E j \in pending[i].todo : RowWritten(i, j)

SpecSeq == InitSeq /\ [][NextSeq]_vars

\* ---------------------------------------------------- DataGrid: sorting
\* The strings the cells of the model hold, in the order of JavaScript's <
\* on strings (by code unit).
StringOrder == <<"", "3", "5", "a", "b", "false", "true">>

Rank(v) == CHOOSE i \in DOMAIN StringOrder : StringOrder[i] = v

\* a[sortColumn] < b[sortColumn]: false when either value is undefined (the
\* row has no such key)
Less(a, b, column) ==
  /\ column \in DOMAIN a
  /\ column \in DOMAIN b
  /\ Rank(a[column]) < Rank(b[column])

\* the comparator handed to sort
Compare(a, b, column, direction) ==
  IF column = NoColumn THEN 0
  ELSE IF Less(a, b, column) THEN (IF direction = "asc" THEN -1 ELSE 1)
  ELSE IF Less(b, a, column) THEN (IF direction = "asc" THEN 1 ELSE -1)
  ELSE 0

InsertAt(s, pos, x) == SubSeq(s, 1, pos - 1) \o <<x>> \o SubSeq(s, pos, Len(s))

\* (insertion in front of the rows that compare equal)
RECURSIVE LinearPos_BeforeEquals(_, _, _, _, _)
LinearPos_BeforeEquals(s, pivot, j, column, direction) ==
  IF j > 0 /\ Compare(s[j], pivot, column, direction) >= 0
  THEN LinearPos_BeforeEquals(s, pivot, j - 1, column, direction)
  ELSE j + 1

\* Insertion sort, the position of pivot in the sorted prefix s: left of
\* the trailing rows that compare greater.
RECURSIVE LinearPos(_, _, _, _, _)
LinearPos(s, pivot, j, column, direction) ==
  IF j > 0 /\ Compare(s[j], pivot, column, direction) > 0
  THEN LinearPos(s, pivot, j - 1, column, direction)
  ELSE j + 1

RECURSIVE InsertionSortFrom(_, _, _, _)
InsertionSortFrom(w, start, column, direction) ==
  IF start > Len(w) THEN w
  ELSE LET prefix == SubSeq(w, 1, start - 1)
           pos == LinearPos(prefix, w[start], start - 1, column, direction)
       IN InsertionSortFrom(InsertAt(prefix, pos, w[start]) \o SubSeq(w, start + 1, Len(w)),
                            start + 1, column, direction)

\* (one pass of exchanges of neighbours instead of a sort)
RECURSIVE ExchangePass(_, _, _, _)
ExchangePass(w, i, column, direction) ==
  IF i >= Len(w) THEN w
  ELSE IF Compare(w[i], w[i + 1], column, direction) > 0
       THEN ExchangePass([w EXCEPT ![i] = w[i + 1], ![i + 1] = w[i]], i + 1, column, direction)
       ELSE ExchangePass(w, i + 1, column, direction)

InsertionSort_SinglePass(rows, column, direction) == ExchangePass(rows, 1, column, direction)

\* Array.prototype.sort of an engine that sorts short arrays by insertion
InsertionSort(rows, column, direction) == InsertionSortFrom(rows, 2, column, direction)

\* Binary insertion: the position of pivot among s[left+1..right].
RECURSIVE BinaryPos(_, _, _, _, _, _)
BinaryPos(s, pivot, left, right, column, direction) ==
  IF left >= right THEN left + 1
  ELSE LET mid == left + ((right - left) \div 2)
       IN IF Compare(pivot, s[mid + 1], column, direction) < 0
          THEN BinaryPos(s, pivot, left, mid, column, direction)
          ELSE BinaryPos(s, pivot, mid + 1, right, column, direction)

\* The length of the run the array starts with: strictly descending, or
\* not descending.
RECURSIVE RunLength(_, _, _, _, _)
RunLength(w, idx, descending, column, direction) ==
  IF idx > Len(w) THEN Len(w)
  ELSE LET order == Compare(w[idx], w[idx - 1], column, direction)
       IN IF (descending /\ order >= 0) \/ (~descending /\ order < 0)
          THEN idx - 1
          ELSE RunLength(w, idx + 1, descending, column, direction)

RECURSIVE BinaryInsertionFrom(_, _, _, _)
BinaryInsertionFrom(w, start, column, direction) ==
  IF start > Len(w) THEN w
  ELSE LET prefix == SubSeq(w, 1, start - 1)
           pos == BinaryPos(prefix, w[start], 0, start - 1, column, direction)
       IN BinaryInsertionFrom(InsertAt(prefix, pos, w[start]) \o SubSeq(w, start + 1, Len(w)),
                              start + 1, column, direction)

\* Array.prototype.sort of an engine that sorts short arrays by run
\* detection and binary insertion
TimSort(rows, column, direction) ==
  IF Len(rows) < 2 THEN rows
  ELSE LET descending == Compare(rows[2], rows[1], column, direction) < 0
           run == RunLength(rows, 3, descending, column, direction)
           w == IF descending
                THEN Reverse(SubSeq(rows, 1, run)) \o SubSeq(rows, run + 1, Len(rows))
                ELSE rows
       IN BinaryInsertionFrom(w, run + 1, column, direction)

\* sortedRows = [...rows].sort(comparator).  With a consistent comparator
\* the result is the stable sort; otherwise the order is left to the
\* engine, and the display is one of the engines' results.
sortedRows(rows, column, direction) ==
  {InsertionSort(rows, column, direction), TimSort(rows, column, direction)}

\* (a header click that leaves the direction alone)
SortAfter_KeepsDirection(column, direction, columnId) ==
  [column |-> columnId, direction |-> IF column = columnId THEN direction ELSE "asc"]

\* handleSort: the sort state after a click on the header of columnId
SortAfter(column, direction, columnId) ==
  IF column = columnId
  THEN [column |-> column, direction |-> IF direction = "asc" THEN "desc" ELSE "asc"]
  ELSE [column |-> columnId, direction |-> "asc"]

\* ------------------------------------------------ DataGrid: edit and sort
\* (a click that leaves an editing cell in edit mode)
EditingAfterClick_KeepsPrior(prev, rowId, columnId) ==
  IF prev = NoCell THEN [rowId |-> rowId, columnId |-> columnId] ELSE prev

\* handleCellClick: setEditingCell({ rowId, columnId })
EditingAfterClick(prev, rowId, columnId) == [rowId |-> rowId, columnId |-> columnId]

\* renderCell: isEditing
IsEditing(cell, rowId, columnId) == cell.rowId = rowId /\ cell.columnId = columnId

\* renderCell: row[column.id] || '' (undefined, false and '' give '')
CellValue(row, columnId) ==
  IF columnId \notin DOMAIN row \/ row[columnId] \in {"", "false"} THEN "" ELSE row[columnId]

\* the editing cell's row and column in the displayed table (0/1 elements)
EditedRow == FindById(activeTable.rows, editingCell.rowId)

EditedColumn == FindById(activeTable.columns, editingCell.columnId)

\* renderCell renders a CellEditor: the editing cell is a cell of the grid
EditorOpen == EditedRow # <<>> /\ EditedColumn # <<>>

\* CellEditor: the editor is an Input (number, date, default), which has the
\* focus since it was mounted (autoFocus) and commits in its onBlur
TextEditorOpen == EditorOpen /\ EditedColumn[1].type \notin {"boolean", "select"}

\* CellEditor: the editor is the Checkbox
CheckboxOpen == EditorOpen /\ EditedColumn[1].type = "boolean"

\* the display div of a cell is clicked and no Input loses the focus to the
\* click (none is open, or the platform leaves the focus where it is);
\* the CellEditor is mounted with useState(value)
handleCellClick(rowId, columnId) ==
  /\ user # NoUser
  /\ rowId \in RowIds(activeTable.rows)
  /\ columnId \in ColumnIds(activeTable.columns)
  /\ ~IsEditing(editingCell, rowId, columnId)
  /\ Gesture
  /\ editingCell' = EditingAfterClick(editingCell, rowId, columnId)
  /\ editValue' = CellValue(FindById(activeTable.rows, rowId)[1], columnId)
  /\ last' = Event("cellClick", [NoOp EXCEPT !.rowId = rowId, !.colId = columnId], "none")
  /\ UNCHANGED <<now, user, tables, activeTable, rTables, rRows, pending, loads, selectedRows,
                 sortColumn, sortDirection, dialogVars>>

\* the editor of the editing cell hands over its value:
\* onCellEdit(rowId, columnId, value), then setEditingCell(null)
handleCellBlur(rowId, columnId, value) ==
  /\ IsEditing(editingCell, rowId, columnId)
  /\ rowId \in RowIds(activeTable.rows)
  /\ columnId \in ColumnIds(activeTable.columns)
  /\ handleRowUpdate(rowId, columnId, value)
  /\ editingCell' = NoCell
  /\ editValue' = ""
  /\ UNCHANGED <<sortColumn, sortDirection, dialogVars>>

\* Input onChange: setEditValue(e.target.value)
CellEditorChange(text) ==
  /\ TextEditorOpen
  /\ text # editValue
  /\ Gesture
  /\ editValue' = text
  /\ last' = Event("editorChange", NoOp, "none")
  /\ UNCHANGED <<now, user, tables, activeTable, rTables, rRows, pending, loads, selectedRows,
                 editingCell, sortColumn, sortDirection, dialogVars>>

\* (a handleBlur that hands over the value the editor was opened with)
HandleBlurValue_Prop(draft, value) == value

\* handleBlur: onBlur(editValue)
HandleBlurValue(draft, value) == draft

\* Input onBlur: handleBlur
CellEditorBlur ==
  /\ TextEditorOpen
  /\ handleCellBlur(editingCell.rowId, editingCell.columnId,
                    HandleBlurValue(editValue, CellValue(EditedRow[1], editingCell.columnId)))

\* the submit key in an Input: CellEditor gives the Input no key handler
CellEditorSubmitKey ==
  /\ TextEditorOpen
  /\ Gesture
  /\ last' = Event("submitKey",
                   [NoOp EXCEPT !.rowId = editingCell.rowId, !.colId = editingCell.columnId,
                                !.value = editValue], "none")
  /\ UNCHANGED <<now, user, tables, activeTable, rTables, rRows, pending, loads, selectedRows,
                 gridVars, dialogVars>>

\* Checkbox onCheckedChange(checked): the negation of checked={editValue}
Checked(value) == IF value \in {"", "false"} THEN "true" ELSE "false"

\* Checkbox onCheckedChange: setEditValue(checked), onBlur(checked)
CellEditorToggle ==
  /\ CheckboxOpen
  /\ handleCellBlur(editingCell.rowId, editingCell.columnId, Checked(editValue))

\* the display div of another cell is clicked while an Input has the focus
\* and loses it to the click: handleBlur of the Input, then handleCellClick
CellClickFromEditor(rowId, columnId) ==
  /\ TextEditorOpen
  /\ rowId \in RowIds(activeTable.rows)
  /\ columnId \in ColumnIds(activeTable.columns)
  /\ ~IsEditing(editingCell, rowId, columnId)
  /\ handleRowUpdate(editingCell.rowId, editingCell.columnId,
                     HandleBlurValue(editValue, CellValue(EditedRow[1], editingCell.columnId)))
  /\ editingCell' = EditingAfterClick(NoCell, rowId, columnId)
  /\ editValue' = CellValue(FindById(activeTable.rows, rowId)[1], columnId)
  /\ UNCHANGED <<sortColumn, sortDirection, dialogVars>>

\* a column header is clicked outside of rename mode
handleSort(columnId) ==
  LET after == SortAfter(sortColumn, sortDirection, columnId)
  IN /\ user # NoUser
     /\ columnId \in ColumnIds(activeTable.columns)
     /\ Gesture
     /\ sortColumn' = after.column
     /\ sortDirection' = after.direction
     /\ last' = Event("sort", [NoOp EXCEPT !.colId = columnId], "none")
     /\ UNCHANGED <<now, user, tables, activeTable, rTables, rRows, pending, loads, selectedRows,
                    editingCell, editValue, dialogVars>>

\* the gestures of a session at the grid
MaxGridGestures == 3

\* values typed into a cell editor
GridValues == {"3", "5"}

\* What the store holds when a session at the grid starts: one table whose
\* last column was added after its three rows, so that a row has a value
\* for it only if its cell was edited since.
GridColumns ==
  <<Column("col_1", "Name", "text"), Column("col_2", "Email", "boolean"),
    Column("col_t1", "Column 3", "text")>>

GridRow(id, name, second) ==
  [k \in {"id", "col_1", "col_2"} \cup (IF second = "undefined" THEN {} ELSE {"col_t1"}) |->
      CASE k = "id" -> id [] k = "col_1" -> name [] k = "col_2" -> "false"
        [] k = "col_t1" -> second]

GridStores ==
  { [tables |-> <<TableRecord("table_1", "Seed", GridColumns)>>,
     rows |-> <<RowRecord("row_0", "table_1", GridRow("row_0", "5", v[1])),
                RowRecord("row_1", "table_1", GridRow("row_1", "3", v[2])),
                RowRecord("row_2", "table_1", GridRow("row_2", "5", v[3]))>>] :
    v \in {w \in [1..3 -> {"undefined", "3", "5"}] : w[2] # "5"} }

\* the signed-in user's tables have been loaded and the first one is active
InitGrid ==
  /\ now = 1
  /\ user = TheUser
  /\ \E store \in GridStores : rTables = store.tables /\ rRows = store.rows
  /\ tables = TablesWithRows(TablesList(rTables), rRows)
  /\ activeTable = tables[1]
  /\ pending = <<>>
  /\ loads = <<>>
  /\ selectedRows = {}
  /\ budget = MaxGridGestures
  /\ last = [ev |-> "init", op |-> NoOp, toast |-> "none", was |-> NoTable.id]
  /\ GridInit
  /\ DialogInit

AllGridRowIds == {"row_0", "row_1", "row_2"}

AllGridColIds == {"col_1", "col_2", "col_t1"}

NextGrid ==
  \/ \E rowId \in AllGridRowIds, columnId \in AllGridColIds : handleCellClick(rowId, columnId)
  \/ \E rowId \in AllGridRowIds, columnId \in AllGridColIds : CellClickFromEditor(rowId, columnId)
  \/ \E text \in GridValues : CellEditorChange(text)
  \/ CellEditorBlur
  \/ CellEditorSubmitKey
  \/ CellEditorToggle
  \/ \E columnId \in AllGridColIds : handleSort(columnId)
  \/ Others /\ \E rowId \in AllGridRowIds : handleRowDelete(rowId)
  \/ Others /\ \E i \in DOMAIN pending : ResolveOk(i)
  \/ Others /\ \E i \in DOMAIN pending : ResolveFail(i)
  \/ Others /\ \E k \in DOMAIN loads : LoadTablesListed(k)
  \/ Others /\ \E k \in DOMAIN loads : LoadRowsListed(k)

SpecGrid == InitGrid /\ [][NextGrid]_vars

\* ------------------------------------------------------ CreateTableDialog
\* the gestures of a session at the creation form
MaxDialogGestures == 5
\* the length of a typed table name
MaxNameLen == 3

\* the text of a character sequence
RECURSIVE ToStr(_)
ToStr(chars) == IF chars = <<>> THEN "" ELSE chars[1] \o ToStr(Tail(chars))

\* (a trim that removes nothing)
Trim_Identity(chars) == chars

\* String.prototype.trim: the leading and the trailing white space removed
RECURSIVE Trim(_)
Trim(chars) ==
  IF chars = <<>> THEN <<>>
  ELSE IF Head(chars) = " " THEN Trim(Tail(chars))
  ELSE IF chars[Len(chars)] = " " THEN Trim(SubSeq(chars, 1, Len(chars) - 1))
  ELSE chars

\* the texts typed into the name field
TypedTexts == UNION {[1..n -> {" ", "C"}] : n \in 0..MaxNameLen}

\* Sidebar's and the welcome screen's create buttons: setCreateTableOpen(true)
OpenDialog ==
  /\ user # NoUser
  /\ ~createTableOpen
  /\ Gesture
  /\ createTableOpen' = TRUE
  /\ last' = Event("openDialog", NoOp, "none")
  /\ UNCHANGED <<now, user, tables, activeTable, rTables, rRows, pending, loads, selectedRows,
                 gridVars, tableName, dlgColumns>>

\* the Cancel button: onOpenChange(false)
CancelDialog ==
  /\ createTableOpen
  /\ Gesture
  /\ createTableOpen' = FALSE
  /\ last' = Event("cancelDialog", NoOp, "none")
  /\ UNCHANGED <<now, user, tables, activeTable, rTables, rRows, pending, loads, selectedRows,
                 gridVars, tableName, dlgColumns>>

\* the name field: setTableName(e.target.value)
setTableName(text) ==
  /\ createTableOpen
  /\ text # tableName
  /\ Gesture
  /\ tableName' = text
  /\ last' = Event("setTableName", NoOp, "none")
  /\ UNCHANGED <<now, user, tables, activeTable, rTables, rRows, pending, loads, selectedRows,
                 gridVars, dlgColumns, createTableOpen>>

handleAddColumn(t) ==
  /\ createTableOpen
  /\ Gesture
  /\ now' = t
  /\ dlgColumns' = Append(dlgColumns, Column(ColIdAt(t), ColumnNameAt(Len(dlgColumns) + 1), "text"))
  /\ last' = Event("dialogAddColumn", NoOp, "none")
  /\ UNCHANGED <<user, tables, activeTable, rTables, rRows, pending, loads, selectedRows,
                 gridVars, tableName, createTableOpen>>

\* the type select of a column: handleUpdateColumn(index, { type })
handleUpdateColumn(index, type) ==
  /\ createTableOpen
  /\ index \in DOMAIN dlgColumns
  /\ dlgColumns[index].type # type
  /\ Gesture
  /\ dlgColumns' = [dlgColumns EXCEPT ![index].type = type]
  /\ last' = Event("dialogUpdateColumn", NoOp, "none")
  /\ UNCHANGED <<now, user, tables, activeTable, rTables, rRows, pending, loads, selectedRows,
                 gridVars, tableName, createTableOpen>>

\* handleRemoveColumn: if (columns.length > 1) columns.filter((_, i) => i !== index)
ColumnsAfterRemove(columns, index) ==
  IF Len(columns) > 1 THEN RemoveAt(columns, index) ELSE columns

handleRemoveColumn(index) ==
  /\ createTableOpen
  /\ index \in DOMAIN dlgColumns
  /\ Gesture
  /\ dlgColumns' = ColumnsAfterRemove(dlgColumns, index)
  /\ last' = Event("dialogRemoveColumn", NoOp, "none")
  /\ UNCHANGED <<now, user, tables, activeTable, rTables, rRows, pending, loads, selectedRows,
                 gridVars, tableName, createTableOpen>>

\* handleCreate: with a name that trims to something and a column,
\* onCreateTable(tableName.trim(), columns), the form reset and closed;
\* otherwise nothing
handleCreate(t) ==
  /\ createTableOpen
  /\ IF Trim(tableName) # <<>> /\ Len(dlgColumns) > 0
     THEN /\ handleCreateTable(ToStr(Trim(tableName)), dlgColumns, t)
          /\ tableName' = <<>>
          /\ dlgColumns' = DefaultColumns
          /\ createTableOpen' = FALSE
          /\ UNCHANGED gridVars
     ELSE /\ t = now
          /\ Gesture
          /\ last' = Event("createRefused", NoOp, "none")
          /\ UNCHANGED <<now, user, tables, activeTable, rTables, rRows, pending, loads,
                         selectedRows, gridVars, dialogVars>>

\* the signed-in user's tables have been loaded
InitDialog ==
  /\ now = 1
  /\ user = TheUser
  /\ \E store \in InitStores : rTables = store.tables /\ rRows = store.rows
  /\ tables = TablesWithRows(TablesList(rTables), rRows)
  /\ activeTable = IF tables = <<>> THEN NoTable ELSE tables[1]
  /\ pending = <<>>
  /\ loads = <<>>
  /\ selectedRows = {}
  /\ budget = MaxDialogGestures
  /\ last = [ev |-> "init", op |-> NoOp, toast |-> "none", was |-> NoTable.id]
  /\ GridInit
  /\ DialogInit

NextDialog ==
  \/ OpenDialog
  \/ CancelDialog
  \/ \E text \in TypedTexts : setTableName(text)
  \/ \E t \in Clock : handleAddColumn(t)
  \/ \E index \in 1..3, type \in {"text", "boolean"} : handleUpdateColumn(index, type)
  \/ \E index \in 1..3 : handleRemoveColumn(index)
  \/ \E t \in Clock : handleCreate(t)
  \/ Others /\ \E i \in DOMAIN pending : ResolveOk(i)
  \/ Others /\ \E i \in DOMAIN pending : ResolveFail(i)
  \/ Others /\ \E k \in DOMAIN loads : LoadTablesListed(k)
  \/ Others /\ \E k \in DOMAIN loads : LoadRowsListed(k)

SpecDialog == InitDialog /\ [][NextDialog]_vars

\* ------------------------------------------- DataGrid: selection sessions
\* the gestures of a session of selecting, switching and deleting
MaxSelectGestures == 3

\* the signed-in user's tables have been loaded and the first one is active
InitSelect ==
  /\ now = 1
  /\ user = TheUser
  /\ \E store \in InitStores : rTables = store.tables /\ rRows = store.rows
  /\ tables = TablesWithRows(TablesList(rTables), rRows)
  /\ tables # <<>>
  /\ activeTable = tables[1]
  /\ pending = <<>>
  /\ loads = <<>>
  /\ selectedRows = {}
  /\ budget = MaxSelectGestures
  /\ last = [ev |-> "init", op |-> NoOp, toast |-> "none", was |-> NoTable.id]
  /\ GridInit
  /\ DialogInit

NextSelect ==
  \/ Others /\ \E rowId \in AllRowIds, checked \in BOOLEAN : ToggleRow(rowId, checked)
  \/ Others /\ \E checked \in BOOLEAN : SelectAll(checked)
  \/ Others /\ BulkDelete
  \/ Others /\ \E tableId \in {tables[i].id : i \in DOMAIN tables} : handleTableSelect(tableId)
  \/ Others /\ \E rowId \in AllRowIds : handleRowDelete(rowId)
  \/ Others /\ \E t \in Clock : handleRowAdd(t)
  \/ Others /\ \E i \in DOMAIN pending : ResolveOk(i)
  \/ Others /\ \E i \in DOMAIN pending : ResolveFail(i)
  \/ Others /\ \E k \in DOMAIN loads : LoadTablesListed(k)
  \/ Others /\ \E k \in DOMAIN loads : LoadRowsListed(k)

SpecSelect == InitSelect /\ [][NextSelect]_vars

\* ================================================================ claims
SingleEntity == {"createTable", "addColumn", "updateColumn", "addRow", "updateRow", "deleteRow"}

Mutations == SingleEntity \cup {"deleteColumn"}

\* C1: when the remote call of a single-entity mutation (createTable,
\* addColumn, updateColumn, addRow, updateRow, deleteRow) is rejected, the
\* step that handles the rejection leaves the table list, the active table,
\* the store and the selection as they were and shows exactly one failure
\* notification.
C1_FailureLeavesLocalState ==
  [][(last'.ev = "fail" /\ last'.op.kind \in SingleEntity) =>
        /\ tables' = tables
        /\ activeTable' = activeTable
        /\ rTables' = rTables
        /\ rRows' = rRows
        /\ selectedRows' = selectedRows
        /\ last'.toast = "error"]_vars

\* an updateRow was rejected and the cell still holds a value other than the
\* one it tried to write
C1_Witness ==
  /\ last.ev = "fail"
  /\ last.op.kind = "updateRow"
  /\ activeTable.id = last.op.snap.id
  /\ \E i \in DOMAIN activeTable.rows :
        /\ activeTable.rows[i]["id"] = last.op.rowId
        /\ last.op.colId \in DOMAIN activeTable.rows[i]
        /\ activeTable.rows[i][last.op.colId] # last.op.value

\* C2: in every reachable state, for the active table and every entry of the
\* table list (which loadTables replaces by what it decodes from the store),
\* the value keys of every row are a subset of the identifiers of the
\* table's columns.
C2_RowKeysWithinColumns ==
  \A t \in Range(tables) \cup {activeTable} :
     \A i \in DOMAIN t.rows : ValueKeys(t.rows[i]) \subseteq ColumnIds(t.columns)

\* a column list without the columns of identifier id, the others in order
RECURSIVE ListWithout(_, _)
ListWithout(columns, id) ==
  IF columns = <<>> THEN <<>>
  ELSE (IF Head(columns).id = id THEN <<>> ELSE <<Head(columns)>>)
         \o ListWithout(Tail(columns), id)

\* C3: a deleteColumn(colId) whose remote calls all succeed makes active the
\* table it was issued on with colId removed from the column list (the other
\* columns in order) and with no row having the key colId, every other key
\* and value of every row unchanged.
C3_DeleteColumnStrips ==
  (last.ev = "ok" /\ last.op.kind = "deleteColumn") =>
     LET snap == last.op.snap
         colId == last.op.colId
     IN /\ activeTable.id = snap.id
        /\ activeTable.columns = ListWithout(snap.columns, colId)
        /\ Len(activeTable.rows) = Len(snap.rows)
        /\ \A i \in DOMAIN snap.rows :
              /\ DOMAIN activeTable.rows[i] = DOMAIN snap.rows[i] \ {colId}
              /\ \A k \in DOMAIN activeTable.rows[i] : activeTable.rows[i][k] = snap.rows[i][k]

\* a column that rows had values for was deleted
C3_Witness ==
  /\ last.ev = "ok"
  /\ last.op.kind = "deleteColumn"
  /\ Len(last.op.snap.columns) >= 2
  /\ \E i \in DOMAIN last.op.snap.rows : last.op.colId \in DOMAIN last.op.snap.rows[i]

\* C4 (as claimed): when deleteColumn's column-list write succeeded and a
\* per-row update is rejected, the active table loses the column and every
\* local row is stripped of its key.
C4_LocalProceedsOnRowFailure ==
  (last.ev = "fail" /\ last.op.kind = "deleteColumn" /\ last.op.phase = "rows") =>
     /\ activeTable.id = last.op.snap.id
     /\ last.op.colId \notin ColumnIds(activeTable.columns)
     /\ \A i \in DOMAIN activeTable.rows : last.op.colId \notin DOMAIN activeTable.rows[i]

\* C4 (amended): when deleteColumn's column-list write succeeded and a
\* per-row update is rejected, the table list and the active table are left
\* as they are (the column and its key in the local rows stay); the first
\* rejection shows one failure notification, and no later resolution of a
\* row update of that deleteColumn changes local state or notifies.
C4_RowFailureKeepsLocalState ==
  [][(/\ last'.op.kind = "deleteColumn"
      /\ last'.op.phase = "rows"
      /\ (last'.ev \in {"fail", "rowRejected"} \/ last'.op.failed)) =>
        /\ tables' = tables
        /\ activeTable' = activeTable
        /\ last'.toast = (IF last'.ev = "fail" THEN "error" ELSE "none")]_vars

\* a row update of a deleteColumn was rejected: the store's column list has
\* lost the column, the active table still has it
C4_Witness ==
  /\ last.ev = "fail"
  /\ last.op.kind = "deleteColumn"
  /\ last.op.phase = "rows"
  /\ activeTable.id = last.op.snap.id
  /\ last.op.colId \in ColumnIds(activeTable.columns)
  /\ \E i \in DOMAIN activeTable.rows : last.op.colId \in DOMAIN activeTable.rows[i]
  /\ \E i \in DOMAIN rTables :
        /\ rTables[i].id = activeTable.id
        /\ last.op.colId \notin ColumnIds(ParseColumns(rTables[i].columns))

\* C5: an addRow whose remote create succeeds makes active the table it was
\* issued on with one row appended: its keys are id and exactly the table's
\* column identifiers, its value is false for a boolean column and the empty
\* string for any other; the rows before it and the columns are unchanged.
C5_AddRowDefaults ==
  (last.ev = "ok" /\ last.op.kind = "addRow") =>
     LET snap == last.op.snap
         n == Len(activeTable.rows)
     IN /\ activeTable.id = snap.id
        /\ activeTable.columns = snap.columns
        /\ n = Len(snap.rows) + 1
        /\ SubSeq(activeTable.rows, 1, n - 1) = snap.rows
        /\ DOMAIN activeTable.rows[n] = {"id"} \cup ColumnIds(snap.columns)
        /\ activeTable.rows[n]["id"] = last.op.id
        /\ \A i \in DOMAIN snap.columns :
              activeTable.rows[n][snap.columns[i].id] =
                 (IF snap.columns[i].type = "boolean" THEN "false" ELSE "")

\* a row was added to a table with rows, a boolean column and a text column
C5_Witness ==
  /\ last.ev = "ok"
  /\ last.op.kind = "addRow"
  /\ last.op.snap.rows # <<>>
  /\ \E i, j \in DOMAIN last.op.snap.columns :
        last.op.snap.columns[i].type = "boolean" /\ last.op.snap.columns[j].type = "text"

\* C6: a createTable whose remote create succeeds makes a table with the
\* given name, the given column list (same order) and no row; it is put at
\* the front of the table list, the previous entries kept in order behind
\* it, and it becomes the active table.
C6_CreateTablePrepends ==
  [][(last'.ev = "ok" /\ last'.op.kind = "createTable") =>
        /\ activeTable'.name = last'.op.name
        /\ activeTable'.columns = last'.op.columns
        /\ activeTable'.rows = <<>>
        /\ tables' = <<activeTable'>> \o tables]_vars

\* a table was created while the list held others
C6_Witness ==
  /\ last.ev = "ok"
  /\ last.op.kind = "createTable"
  /\ Len(tables) >= 3
  /\ tables[1] = activeTable
  /\ Len(activeTable.columns) = 2

\* C7: once every call of a bulk delete of a selection of two or more rows
\* has resolved and every remote delete has succeeded, the active table's
\* rows are those it had when the delete control was used, less the selected
\* rows.
C7_BulkDeleteRemovesSelection ==
  (/\ last.ev = "ok"
   /\ last.op.kind = "deleteRow"
   /\ Cardinality(last.op.batch) >= 2
   /\ \A i \in DOMAIN pending : pending[i].batch # last.op.batch
   /\ \A id \in last.op.batch : ~HasId(rRows, id)) =>
     /\ activeTable.id = last.op.snap.id
     /\ RowIds(activeTable.rows) = RowIds(last.op.snap.rows) \ last.op.batch

\* C8: in a session where each mutation resolves before the next gesture
\* and no remote call is rejected, after each mutation the active table's
\* column list and row list equal what loadTables decodes from the store's
\* records for that table (stated for the sessions in which no two tables
\* and no two rows were given the same Date.now() identifier).
C8_ActiveEqualsStore ==
  (/\ last.ev = "ok"
   /\ last.op.kind \in Mutations
   /\ Cardinality({tables[i].id : i \in DOMAIN tables}) = Len(tables)
   /\ Cardinality(RowIds(activeTable.rows)) = Len(activeTable.rows)) =>
     \E i \in DOMAIN rTables :
        /\ rTables[i].id = activeTable.id
        /\ DecodeTable(rTables[i], rRows).columns = activeTable.columns
        /\ DecodeTable(rTables[i], rRows).rows = activeTable.rows

\* C9: when a mutation issued on table T1 resolves successfully while
\* another table is active, the active table becomes T1 as the handler's
\* closure captured it, updated by the mutation (for updateRow: the captured
\* rows with the cell set, the captured columns).
C9_StaleResultOverridesSelection ==
  [][(/\ last'.ev = "ok"
      /\ last'.op.kind \in Mutations \ {"createTable"}
      /\ activeTable.id # last'.op.snap.id) =>
        LET op == last'.op
        IN /\ activeTable'.id = op.snap.id
           /\ activeTable'.name = op.snap.name
           /\ op.kind = "updateRow" =>
                /\ activeTable'.columns = op.snap.columns
                /\ Len(activeTable'.rows) = Len(op.snap.rows)
                /\ \A i \in DOMAIN op.snap.rows :
                      IF op.snap.rows[i]["id"] = op.rowId
                      THEN /\ activeTable'.rows[i][op.colId] = op.value
                           /\ \A k \in DOMAIN op.snap.rows[i] \ {op.colId} :
                                 activeTable'.rows[i][k] = op.snap.rows[i][k]
                      ELSE activeTable'.rows[i] = op.snap.rows[i]]_vars

\* an updateRow issued on one table resolved while another table was active
C9_Witness ==
  /\ last.ev = "ok"
  /\ last.op.kind = "updateRow"
  /\ last.was \notin {last.op.snap.id, NoTable.id}
  /\ activeTable.id = last.op.snap.id

\* C10: no step of a mutation other than the continuation after its
\* successful remote write changes the table list or the active table: not
\* the step that issues the call (of one handler, or of bulk delete), not
\* the rejection, not the success of deleteColumn's column-list write while
\* its row writes are still to come.
C10_NoLocalEffectBeforeConfirm ==
  [][(\/ last'.ev = "bulkDelete"
      \/ /\ last'.op.kind \in Mutations
         /\ last'.op.phase = "call"
         /\ last'.ev # "ok") =>
        /\ tables' = tables
        /\ activeTable' = activeTable]_vars

\* an addRow is pending and the active table is still the one it was issued on
C10_Witness ==
  /\ last.ev = "issue"
  /\ last.op.kind = "addRow"
  /\ \E i \in DOMAIN pending : pending[i] = last.op
  /\ activeTable = last.op.snap
  /\ \A i \in DOMAIN rRows : rRows[i].id # last.op.id

\* the (rowId, columnId) pairs of the table's cells that renderCell shows
\* with an editor
EditingCells(cell, table) ==
  {rc \in RowIds(table.rows) \X ColumnIds(table.columns) : IsEditing(cell, rc[1], rc[2])}

\* C11: in every state at most one (rowId, columnId) cell of the grid is in
\* editing state, and a click on the display of a cell B leaves B in editing
\* state and the cell A that was editing, if any, in display state.
C11_OneEditingCell ==
  [][/\ Cardinality(EditingCells(editingCell, activeTable)) <= 1
     /\ Cardinality(EditingCells(editingCell', activeTable')) <= 1
     /\ last'.ev = "cellClick" =>
          /\ IsEditing(editingCell', last'.op.rowId, last'.op.colId)
          /\ EditingCells(editingCell', activeTable') = {<<last'.op.rowId, last'.op.colId>>}
          /\ editingCell # NoCell =>
               ~IsEditing(editingCell', editingCell.rowId, editingCell.columnId)]_vars

\* the second of two clicks on cells in a row: a cell was editing when
\* another one was clicked
C11_Witness ==
  /\ last.ev = "cellClick"
  /\ budget = MaxGridGestures - 2
  /\ sortColumn = NoColumn
  /\ EditingCells(editingCell, activeTable) = {<<last.op.rowId, last.op.colId>>}

\* C12: once a row of the displayed table has been deleted (by its own
\* delete control or by bulk delete), its identifier is not in the selection;
\* the selection holds only identifiers of rows of the displayed table.
C12_DeletedRowLeavesSelection ==
  (/\ last.ev = "ok"
   /\ last.op.kind = "deleteRow"
   /\ activeTable.id = last.op.snap.id) =>
     /\ last.op.rowId \notin selectedRows
     /\ selectedRows \subseteq RowIds(activeTable.rows)

\* d holds the rows of rows, each once
IsPermutation(d, rows) ==
  /\ Len(d) = Len(rows)
  /\ \A i \in DOMAIN rows : Cardinality({j \in DOMAIN d : d[j] = rows[i]}) =
                            Cardinality({j \in DOMAIN rows : rows[j] = rows[i]})

\* no row of d comes before a row whose value for column is smaller
\* (ascending) or greater (descending); rows without a value are passed over
IsOrdered(d, column, direction) ==
  \A i, j \in DOMAIN d :
     i < j => IF direction = "asc" THEN ~Less(d[j], d[i], column) ELSE ~Less(d[i], d[j], column)

\* C13: when a sort column is set, the displayed rows are a permutation of
\* the table's rows ordered by their value for it, non-decreasing when the
\* direction is ascending and non-increasing when it is descending.
C13_DisplayOrdered ==
  sortColumn # NoColumn =>
     \A d \in sortedRows(activeTable.rows, sortColumn, sortDirection) :
        /\ IsPermutation(d, activeTable.rows)
        /\ IsOrdered(d, sortColumn, sortDirection)

\* C14: a header click on the current sort column flips the direction and
\* keeps the column; a click on another column makes it the sort column with
\* direction ascending; two clicks in a row on the sort column bring the
\* direction back.
C14_HandleSortToggles ==
  [][last'.ev = "sort" =>
       LET c == last'.op.colId
       IN /\ sortColumn' = c
          /\ IF sortColumn = c
             THEN sortDirection' = (IF sortDirection = "asc" THEN "desc" ELSE "asc")
             ELSE sortDirection' = "asc"
          /\ SortAfter(c, sortDirection', c) =
               [column |-> c, direction |-> IF sortColumn = c THEN sortDirection ELSE "desc"]]_vars

\* the sort column's header was clicked again: the direction is descending
C14_Witness ==
  /\ last.ev = "sort"
  /\ sortColumn = last.op.colId
  /\ sortDirection = "desc"

\* the rows have the same value for column (or both have none)
SameValue(a, b, column) ==
  IF column \in DOMAIN a /\ column \in DOMAIN b THEN a[column] = b[column]
  ELSE column \notin DOMAIN a /\ column \notin DOMAIN b

Position(d, row) == CHOOSE i \in DOMAIN d : d[i] = row

C16_SortIdempotent ==
  \A column \in ColumnIds(activeTable.columns) \cup {NoColumn}, direction \in {"asc", "desc"} :
     \A d \in sortedRows(activeTable.rows, column, direction) :
        sortedRows(d, column, direction) = {d}

\* the grid is sorted by a column and the sort has moved a row
C16_Witness ==
  /\ sortColumn # NoColumn
  /\ last.ev = "sort"
  /\ \E d \in sortedRows(activeTable.rows, sortColumn, sortDirection) :
        /\ d # activeTable.rows
        /\ sortedRows(d, sortColumn, sortDirection) = {d}

\* C17: one user action that fans out into several remote calls notifies
\* the user once: after a call of a bulk delete of two or more rows has
\* shown its notification, the resolution of another call of that bulk
\* delete shows none; and after the first rejection of a row update of a
\* deleteColumn, no later resolution of its row updates shows one.
C17_OneNotificationPerAction ==
  [][/\ (/\ last.toast # "none"
         /\ Cardinality(last.op.batch) >= 2
         /\ last'.op.kind = "deleteRow"
         /\ last'.op.batch = last.op.batch
         /\ last' # last) => last'.toast = "none"
     /\ (/\ last'.op.kind = "deleteColumn"
         /\ last'.op.failed) => last'.toast = "none"]_vars

\* ---------------------------------------------------------------- C18
IsBlank(chars) == \A i \in DOMAIN chars : chars[i] = " "

IsTrimmed(chars) ==
  chars # <<>> /\ chars[1] # " " /\ chars[Len(chars)] # " "

\* C18: a creation with an empty or white-space-only name, or without a
\* column, issues no remote call and changes neither the table list nor the
\* active table; the form's column list never becomes empty; and the name
\* that reaches createTable is trimmed and not empty.
C18_CreationIsValidated ==
  [][ /\ Len(dlgColumns') >= 1
      /\ (last'.ev = "createRefused") =>
           /\ pending' = pending
           /\ tables' = tables /\ activeTable' = activeTable
           /\ rTables' = rTables /\ rRows' = rRows
      /\ (last'.ev = "issue" /\ last'.op.kind = "createTable") =>
           /\ ~IsBlank(tableName)
           /\ Len(dlgColumns) >= 1
           /\ last'.op.columns = dlgColumns
           /\ \E chars \in TypedTexts : IsTrimmed(chars) /\ last'.op.name = ToStr(chars)
    ]_vars

\* a creation with a white-space-only name has been refused
C18_Witness ==
  /\ last.ev = "createRefused"
  /\ tableName # <<>> /\ IsBlank(tableName)
  /\ pending = <<>>

\* ---------------------------------------------------------------- C19
\* C19: an updateRow whose remote update succeeds sets the value of the
\* identified row for columnId and leaves unchanged every other key of that
\* row, every other row, the row order and the column list (of the table the
\* handler was called on); the data written remotely for that row is the
\* full updated row object, and no other record is written.
C19_UpdateRowFrame ==
  [][ (last'.ev = "ok" /\ last'.op.kind = "updateRow") =>
        LET op == last'.op
            before == op.snap.rows
            after == activeTable'.rows
        IN /\ activeTable'.id = op.snap.id
           /\ activeTable'.name = op.snap.name
           /\ activeTable'.columns = op.snap.columns
           /\ Len(after) = Len(before)
           /\ \A i \in DOMAIN before :
                IF before[i]["id"] = op.rowId
                THEN /\ DOMAIN after[i] = DOMAIN before[i] \cup {op.colId}
                     /\ after[i][op.colId] = op.value
                     /\ \A k \in DOMAIN before[i] \ {op.colId} : after[i][k] = before[i][k]
                ELSE after[i] = before[i]
           /\ Len(tables') = Len(tables)
           /\ \A t \in DOMAIN tables :
                tables'[t] = IF tables[t].id = op.snap.id THEN activeTable' ELSE tables[t]
           /\ rTables' = rTables
           /\ Len(rRows') = Len(rRows)
           /\ \A j \in DOMAIN rRows :
                IF rRows[j].id = op.rowId
                THEN /\ rRows'[j].id = op.rowId
                     /\ rRows'[j].tableId = rRows[j].tableId
                     /\ ParseRow(rRows'[j].data) = FindById(after, op.rowId)[1]
                ELSE rRows'[j] = rRows[j]
    ]_vars

\* a cell of one of two rows, each with two more keys, has been written
C19_Witness ==
  /\ last.ev = "ok" /\ last.op.kind = "updateRow"
  /\ Len(activeTable.rows) >= 2
  /\ \E j \in DOMAIN rRows :
       /\ rRows[j].id = last.op.rowId
       /\ Cardinality(DOMAIN ParseRow(rRows[j].data)) >= 3
       /\ ParseRow(rRows[j].data)[last.op.colId] = last.op.value

\* ---------------------------------------------------------------- C20
\* C20: an addColumn whose remote update succeeds appends exactly one column
\* of type text and width 200 at the end of the column list, keeps the
\* existing columns and their order and leaves every row unchanged; the key
\* of a column whose identifier comes from a new clock reading is in no row
\* that exists when it is added.
C20_AddColumnFrame ==
  [][ /\ (last'.ev = "ok" /\ last'.op.kind = "addColumn") =>
           LET op == last'.op
               n == Len(op.snap.columns)
           IN /\ Len(activeTable'.columns) = n + 1
              /\ SubSeq(activeTable'.columns, 1, n) = op.snap.columns
              /\ activeTable'.columns[n + 1].id = op.id
              /\ activeTable'.columns[n + 1].type = "text"
              /\ activeTable'.columns[n + 1].width = 200
              /\ activeTable'.rows = op.snap.rows
              /\ activeTable'.id = op.snap.id
              /\ \A t \in DOMAIN tables :
                   tables'[t] = IF tables[t].id = op.snap.id THEN activeTable' ELSE tables[t]
              /\ rRows' = rRows
              /\ \A j \in DOMAIN rTables :
                   IF rTables[j].id = op.snap.id
                   THEN ParseColumns(rTables'[j].columns) = activeTable'.columns
                   ELSE rTables'[j] = rTables[j]
      /\ (last'.ev = "issue" /\ last'.op.kind = "addColumn" /\ now' > now) =>
           /\ last'.op.id \notin ColumnIds(last'.op.snap.columns)
           /\ \A i \in DOMAIN last'.op.snap.rows : last'.op.id \notin DOMAIN last'.op.snap.rows[i]
    ]_vars

\* a column has been added to a table that holds a row created in this
\* session
C20_Witness ==
  /\ last.ev = "ok" /\ last.op.kind = "addColumn"
  /\ \E i \in DOMAIN activeTable.rows :
       /\ activeTable.rows[i]["id"] \in {RowIdAt(t) : t \in 1..MaxClock}
       /\ last.op.id \notin DOMAIN activeTable.rows[i]
  /\ Len(activeTable.columns) >= 2

\* ---------------------------------------------------------------- C21
DistinctIds(s) == \A i, j \in DOMAIN s : i < j => s[i]["id"] # s[j]["id"]

\* C21: within each local table no two columns share an identifier and no
\* two rows share an identifier, also when identifiers are generated without
\* the clock advancing in between.
C21_IdentifiersUnique ==
  \A table \in Range(tables) \cup {activeTable} :
     DistinctIds(table.columns) /\ DistinctIds(table.rows)

\* ---------------------------------------------------------------- C22
\* the step moves the editing cell to display state and hands exactly one
\* updateRow of value for it to the application
CommitsEdit(value) ==
  /\ editingCell' = NoCell
  /\ Len(pending') = Len(pending) + 1
  /\ SubSeq(pending', 1, Len(pending)) = pending
  /\ LET op == pending'[Len(pending')]
     IN /\ op.kind = "updateRow"
        /\ op.rowId = editingCell.rowId
        /\ op.colId = editingCell.columnId
        /\ op.value = value

\* C22: for a text, number or date cell in editing state, both the loss of
\* focus and the submit key move the cell to display state and commit the
\* edited value through exactly one updateRow for that cell; a boolean
\* cell's toggle commits at once through one updateRow and moves the cell
\* to display state.
C22_EditorCommits ==
  [][/\ (EditorOpen /\ editingCell' = NoCell) =>
           CommitsEdit(IF CheckboxOpen THEN Checked(editValue) ELSE editValue)
     /\ (last'.ev = "submitKey" /\ last' # last) => CommitsEdit(editValue)]_vars

\* ---------------------------------------------------------------- C23
\* the effect of a successful addRow or updateRow is in the table and in
\* the stored rows
HasEffect(op, table, rowRecords) ==
  IF op.kind = "addRow"
  THEN op.id \in RowIds(table.rows) /\ HasId(rowRecords, op.id)
  ELSE /\ \E i \in DOMAIN table.rows :
            /\ table.rows[i]["id"] = op.rowId
            /\ op.colId \in DOMAIN table.rows[i]
            /\ table.rows[i][op.colId] = op.value
       /\ \E j \in DOMAIN rowRecords :
            /\ rowRecords[j].id = op.rowId
            /\ op.colId \in DOMAIN ParseRow(rowRecords[j].data)
            /\ ParseRow(rowRecords[j].data)[op.colId] = op.value

\* C23: when two mutations of the active table were in flight at the same
\* time and both remote calls succeeded, then once both have resolved the
\* active table and the stored row data hold the effect of both.
C23_BothEffectsKept ==
  [][(/\ last.ev = "ok" /\ last'.ev = "ok" /\ last' # last
      /\ last.op.kind \in {"addRow", "updateRow"}
      /\ last'.op.kind \in {"addRow", "updateRow"}
      /\ \E i \in DOMAIN pending : pending[i] = last'.op
      /\ last.op.snap = last'.op.snap
      /\ <<last.op.rowId, last.op.colId>> # <<last'.op.rowId, last'.op.colId>>
            \/ last.op.kind # last'.op.kind \/ last.op.kind = "addRow")
     => /\ HasEffect(last.op, activeTable', rRows')
        /\ HasEffect(last'.op, activeTable', rRows')]_vars

\* ---------------------------------------------------------------- C24
\* row without the key of the deleted column
WithoutKey(row, columnId) == [k \in DOMAIN row \ {columnId} |-> row[k]]

\* the store's row records differ from before in the record of row, which
\* now holds that row without the deleted key
OnlyRowStripped(op, row) ==
  /\ Len(rRows') = Len(rRows)
  /\ \A r \in DOMAIN rRows :
       IF rRows[r].id = row["id"]
       THEN ParseRow(rRows'[r].data) = WithoutKey(row, op.colId)
       ELSE rRows'[r] = rRows[r]

\* C24: deleteColumn writes the column list first and the rows only after
\* that write succeeded: when the column-list write fails no row write is
\* issued and the local state is unchanged; otherwise one row update per row
\* of the table is issued, each carrying that row without the deleted key,
\* and a rejected row update neither stops nor undoes the others.
C24_DeleteColumnOrder ==
  [][(last'.op.kind = "deleteColumn" /\ last' # last) =>
       LET op == last'.op
       IN /\ op.phase = "call" =>
                /\ rRows' = rRows
                /\ last'.ev = "issue" => rTables' = rTables
                /\ last'.ev = "fail" =>
                     /\ rTables' = rTables
                     /\ tables' = tables /\ activeTable' = activeTable
                     /\ \A i \in DOMAIN pending' : pending'[i].phase = "rows" =>
                           \E k \in DOMAIN pending : pending[k] = pending'[i]
                /\ last'.ev = "columnsWritten" =>
                     /\ \E i \in DOMAIN pending' :
                           /\ pending'[i] = [op EXCEPT !.phase = "rows",
                                                      !.todo = DOMAIN op.snap.rows]
                     /\ \A r \in DOMAIN rTables : rTables[r].id = op.snap.id =>
                           op.colId \notin ColumnIds(ParseColumns(rTables'[r].columns))
          /\ op.phase = "rows" =>
                /\ rTables' = rTables
                /\ \E j \in op.todo :
                     /\ IF last'.ev \in {"rowWritten", "ok"}
                        THEN OnlyRowStripped(op, op.snap.rows[j])
                        ELSE rRows' = rRows
                     /\ op.todo \ {j} # {} =>
                          \E i \in DOMAIN pending' :
                             /\ pending'[i].snap = op.snap /\ pending'[i].colId = op.colId
                             /\ pending'[i].phase = "rows"
                             /\ pending'[i].todo = op.todo \ {j}
                /\ last'.ev = "ok" => ~op.failed /\ Cardinality(op.todo) = 1
    ]_vars

\* after a row update of a deleteColumn was rejected, the update of another
\* row has been written
C24_Witness ==
  /\ last.ev = "rowWritten"
  /\ last.op.kind = "deleteColumn"
  /\ last.op.failed
  /\ \E r \in DOMAIN rRows : last.op.colId \notin DOMAIN ParseRow(rRows[r].data)
  /\ \E r \in DOMAIN rRows : last.op.colId \in DOMAIN ParseRow(rRows[r].data)

\* ---------------------------------------------------------------- C25
\* C25: every remote row delete issued by the bulk delete targets a row of
\* the table that is active when the delete control is used; a selection
\* made in the table active before cannot cause deletes of that table's
\* rows.
C25_BulkDeleteTargetsActive ==
  \A i \in DOMAIN pending :
     (pending[i].kind = "deleteRow" /\ pending[i].batch # {}) =>
        pending[i].rowId \in RowIds(pending[i].snap.rows)

\* ---------------------------------------------------------------- C26
\* C26: loadTables makes the first loaded table active only if no table is
\* active when its result is applied: a table made active by createTable or
\* by a selection while the loadTables call was pending is still the active
\* table after it has resolved.
C26_LoadKeepsActive ==
  [][(last'.ev = "loadOk" /\ activeTable # NoTable) => activeTable'.id = activeTable.id]_vars

\* ---------------------------------------------------------------- C27
\* C27: while a table is active, the table list has exactly one entry with
\* the active table's id, and that entry's columns and rows are the active
\* table's (table lists in which two tables got the same identifier from
\* one clock reading are left aside).
C27_ActiveIsListed ==
  (activeTable # NoTable /\ DistinctIds(tables)) =>
     /\ Cardinality({i \in DOMAIN tables : tables[i].id = activeTable.id}) = 1
     /\ \A i \in DOMAIN tables :
          tables[i].id = activeTable.id =>
             tables[i].columns = activeTable.columns /\ tables[i].rows = activeTable.rows

\* ---------------------------------------------------------------- C28
\* the step enters edit mode on another cell while an editor is open
EntersOtherCell ==
  /\ EditorOpen
  /\ editingCell' # NoCell
  /\ editingCell' # editingCell

\* C28 (as claimed): entering edit mode on a cell B while cell A holds an
\* uncommitted edit emits no updateRow for A and changes no row data.
C28_DraftDiscarded ==
  [][EntersOtherCell =>
        /\ pending' = pending
        /\ activeTable' = activeTable /\ tables' = tables /\ rRows' = rRows]_vars

\* C28 (amended): entering edit mode on a cell B by a click while the
\* editor of cell A is open changes no row data in that step and makes B
\* the editing cell with its own value as draft; A's draft is discarded
\* without a call unless A's editor is a text, number or date field that
\* loses the focus to the click: its draft is then committed through exactly
\* one updateRow for A.
C28_DraftCommittedOnClickAway ==
  [][EntersOtherCell =>
        /\ activeTable' = activeTable /\ tables' = tables /\ rRows' = rRows
        /\ \/ pending' = pending /\ last'.ev = "cellClick"
           \/ /\ TextEditorOpen
              /\ last'.ev = "issue"
              /\ Len(pending') = Len(pending) + 1
              /\ SubSeq(pending', 1, Len(pending)) = pending
              /\ LET op == pending'[Len(pending')]
                 IN /\ op.kind = "updateRow"
                    /\ op.rowId = editingCell.rowId
                    /\ op.colId = editingCell.columnId
                    /\ op.value = editValue
        /\ \E i \in DOMAIN activeTable.rows :
              /\ activeTable.rows[i]["id"] = editingCell'.rowId
              /\ editValue' = CellValue(activeTable.rows[i], editingCell'.columnId)]_vars

\* a cell was clicked while another cell's text editor held a draft that
\* differs from the cell's value: the draft is on its way to the store
C28_Witness ==
  /\ last.ev = "issue" /\ last.op.kind = "updateRow"
  /\ editingCell # NoCell
  /\ <<editingCell.rowId, editingCell.columnId>> # <<last.op.rowId, last.op.colId>>
  /\ \E i \in DOMAIN activeTable.rows :
        /\ activeTable.rows[i]["id"] = last.op.rowId
        /\ last.op.value # CellValue(activeTable.rows[i], last.op.colId)
  /\ pending # <<>>

\* ---------------------------------------------------------------- C29
\* C29: the grid's editing cell is none, or a pair whose row and column both
\* exist in the displayed table.
C29_EditingCellExists ==
  editingCell # NoCell =>
     /\ editingCell.rowId \in RowIds(activeTable.rows)
     /\ editingCell.columnId \in ColumnIds(activeTable.columns)

\* ---------------------------------------------------------------- C30
\* the handlers that change the active table
TableMutations == {"addColumn", "updateColumn", "deleteColumn", "addRow", "updateRow", "deleteRow"}

\* C30: an updateRow for a row that is not in the active table, and any
\* mutation of the active table issued while none is active, issues no
\* remote call, leaves the table list and the active table unchanged and
\* shows no notification.
C30_NothingToMutate ==
  [][/\ (last'.ev = "issue" /\ last'.op.kind \in TableMutations) =>
           /\ activeTable # NoTable
           /\ last'.op.snap = activeTable
           /\ last'.op.kind = "updateRow" => last'.op.rowId \in RowIds(activeTable.rows)
     /\ (last'.ev = "return") =>
           /\ last'.op.kind \in TableMutations
           /\ activeTable = NoTable \/ last'.op.kind = "updateRow"
           /\ pending' = pending
           /\ tables' = tables /\ activeTable' = activeTable
           /\ rTables' = rTables /\ rRows' = rRows
           /\ loads' = loads
           /\ last'.toast = "none"]_vars

\* an updateRow for a row that is no longer in the active table has returned
C30_Witness ==
  /\ last.ev = "return" /\ last.op.kind = "updateRow"
  /\ activeTable.id = "table_1"
  /\ Len(activeTable.rows) = 1
  /\ pending = <<>>

====
